---- MODULE Spec2Model ----
(***************************************************************************)
(* A model of the batch transcription pipeline: the run guard of           *)
(* batch_scheduler.py (JobState, run_batch_job) and the scan, orphan       *)
(* reconciliation, per-item processing and two-phase archival of           *)
(* azure_manager.py (AzureProcessor).                                      *)
(***************************************************************************)
EXTENDS Integers, Sequences, FiniteSets, TLC

VARIABLES
    \* ---- batch_scheduler.py ----
    file,       \* content of JOB_STATE_FILE
    now,        \* datetime.now(), in seconds
    pc,         \* position of each run_batch_job invocation
    last,       \* the latest JobState.is_running call: its input, result, effect
    prev,       \* sequential acquires: the attempt before the latest one
    cur,        \* sequential acquires: the latest attempt
    released,   \* sequential acquires: mark_complete ran since the latest attempt
    shown,      \* what the latest status command found
    \* ---- azure_manager.py: storage and staging ----
    recordings,             \* Config.RECORDINGS_CONTAINER: blob name -> bytes
    transcriptions,         \* Config.TRANSCRIPTIONS_CONTAINER: the blob names it holds
    processed_recordings,   \* Config.PROCESSED_CONTAINER: blob name -> bytes
    temp_audio,             \* self.temp_dir: file name -> bytes
    \* ---- azure_manager.py: one AzureProcessor and its process_all call ----
    ppc,            \* position in process_all
    batch_size,
    listing,        \* container.list_blobs() of this run
    i,              \* index of the loop in progress
    pending,
    orphans,
    batch_num,
    batch_files,
    successful,     \* blob names of the batch's successful results
    moved,
    stats,          \* self.stats
    \* ---- history, for the properties ----
    calls,          \* blob names passed to process_file in this run, in order
    batches,        \* the batch_files formed in this run, in order
    copied,         \* blobs whose archive upload was acknowledged in this run
    probe_errors,   \* blobs whose artifact probe raised in this run's scan
    faults,         \* operations that have failed so far, over all runs
    lastop,         \* the latest storage operation: <<operation, blob, outcome>>
    at_start,       \* the containers as this run found them, what failed in the run before
    placed,         \* the blobs the producer placed in the source container
    published,      \* blobs whose transcription process_file has published
    interrupted,    \* blobs published and still in the source when a run was killed
    runs            \* runs started

gvars == <<file, now, pc, last, prev, cur, released, shown>>

storage == <<recordings, transcriptions, processed_recordings>>

locals ==
    <<ppc, batch_size, listing, i, pending, orphans, batch_num, batch_files,
      successful, moved, stats>>

history ==
    <<calls, batches, copied, probe_errors, faults, lastop, at_start, placed,
      published, interrupted, runs>>

pvars == <<storage, temp_audio, locals, history>>

vars == <<gvars, pvars>>

(***************************************************************************)
(* Bounds of the model.                                                    *)
(***************************************************************************)
NumProcs == 2
MaxTicks == 3
MaxFiles == 2
MaxRuns == 2
MaxBatchSize == 2
MaxFaults == 2

Procs == 1..NumProcs

(***************************************************************************)
(* batch_scheduler.py: configuration.                                      *)
(***************************************************************************)
BATCH_INTERVAL_MINUTES == 60
StaleSeconds == 7200
IntervalSeconds == BATCH_INTERVAL_MINUTES * 60

(***************************************************************************)
(* JOB_STATE_FILE.  A key the JSON document does not hold is NoKey.        *)
(***************************************************************************)
NoKey == -1

NoFile ==
    [kind |-> "absent", running |-> FALSE, start_time |-> NoKey, pid |-> 0,
     last_run_time |-> NoKey, last_run_success |-> FALSE, last_run_stats |-> "none"]

\* open(JOB_STATE_FILE, 'w') truncates before json.dump writes: a process
\* killed in between leaves a file json.load cannot parse.
Unreadable ==
    [kind |-> "unreadable", running |-> FALSE, start_time |-> NoKey, pid |-> 0,
     last_run_time |-> NoKey, last_run_success |-> FALSE, last_run_stats |-> "none"]

RunningRecord(t, p) ==
    [kind |-> "record", running |-> TRUE, start_time |-> t, pid |-> p,
     last_run_time |-> NoKey, last_run_success |-> FALSE, last_run_stats |-> "none"]

CompleteRecord(t, success, run_stats) ==
    [kind |-> "record", running |-> FALSE, start_time |-> NoKey, pid |-> 0,
     last_run_time |-> t, last_run_success |-> success, last_run_stats |-> run_stats]

(***************************************************************************)
(* JobState.is_running, as a function of the file and the clock.           *)
(***************************************************************************)
\* a mutant: the threshold is inclusive
elapsed_at_least(e) == e >= StaleSeconds

\* a mutant: the elapsed seconds are compared with the threshold in minutes
elapsed_exceeds_minutes(e) == e > StaleSeconds \div 60

\* a mutant: the elapsed seconds are compared with the threshold in milliseconds
elapsed_exceeds_millis(e) == e > StaleSeconds * 1000

elapsed_exceeds(e) == e > StaleSeconds

\* The record carries a start_time more than the threshold before t.
is_stale(f, t) ==
    /\ f.kind = "record"
    /\ f.start_time # NoKey
    /\ elapsed_exceeds(t - f.start_time)

\* a mutant: the except clause answers True (the guard fails closed)
is_running_fail_closed(f, t) ==
    IF f.kind = "absent" THEN FALSE
    ELSE IF f.kind = "unreadable" THEN TRUE
    ELSE IF f.start_time = NoKey THEN TRUE
    ELSE IF elapsed_exceeds(t - f.start_time) THEN FALSE
    ELSE f.running

is_running_result(f, t) ==
    IF f.kind = "absent" THEN FALSE                 \* not JOB_STATE_FILE.exists()
    ELSE IF f.kind = "unreadable" THEN FALSE        \* json.load raises: except
    ELSE IF f.start_time = NoKey THEN FALSE         \* fromisoformat('') raises: except
    ELSE IF elapsed_exceeds(t - f.start_time) THEN FALSE
    ELSE f.running                                  \* state.get('running', False)

\* JobState.clear
clear(f) == NoFile

is_running_file(f, t) ==
    IF is_stale(f, t) THEN clear(f) ELSE f

mark_running_file(t, p) == RunningRecord(t, p)

\* mark_complete that records every run as a success
mark_complete_always_success(t, success, run_stats) ==
    CompleteRecord(t, TRUE, IF run_stats = "none" THEN "empty" ELSE run_stats)

\* 'last_run_stats': stats or {}
mark_complete_file(t, success, run_stats) ==
    CompleteRecord(t, success, IF run_stats = "none" THEN "empty" ELSE run_stats)

NoCall ==
    [p |-> 0, before |-> NoFile, at |-> 0, ret |-> FALSE, after |-> NoFile,
     rel |-> FALSE]

\* a refused run that falls through to the try block (no return)
FallThroughPc == "admitted"

RefusedPc == "idle"

\* no status command has run
NoStatus == [found |-> FALSE, state |-> Unreadable]

\* JobState.get_last_run: the record, or None for an absent or unreadable file
get_last_run(f) ==
    IF f.kind = "record" THEN [found |-> TRUE, state |-> f]
    ELSE [found |-> FALSE, state |-> NoFile]

\* a mutant: status asks JobState.is_running, which clears a stale record
status_by_is_running(f, t) == is_running_file(f, t)

\* the file after the status command: get_last_run only opens it for reading
status_file(f, t) == f

(***************************************************************************)
(* azure_manager.py: blob names.  A name is the sequence of its parts, the *)
(* separators "/" and "." being parts of their own.                        *)
(***************************************************************************)
AllNames ==
    { <<"x", "/", "a", ".", "mp3">>,
      <<"x", "/", "a", ".", "wav">>,
      <<"x", "/", "b", ".", "Wav">>,
      <<"x", "/", "c", ".", "txt">>,
      <<"y", "/", "a", ".", "wav">> }

\* container.list_blobs() enumerates in lexicographic order of the names
BlobOrder ==
    << <<"x", "/", "a", ".", "mp3">>,
       <<"x", "/", "a", ".", "wav">>,
       <<"x", "/", "b", ".", "Wav">>,
       <<"x", "/", "c", ".", "txt">>,
       <<"y", "/", "a", ".", "wav">> >>

AUDIO_EXTENSIONS ==
    { <<".", e>> : e \in {"mp3", "wav", "m4a", "flac", "ogg",
                          "MP3", "WAV", "M4A", "FLAC", "OGG"} }

\* str.endswith
endswith(name, suffix) ==
    /\ Len(name) >= Len(suffix)
    /\ SubSeq(name, Len(name) - Len(suffix) + 1, Len(name)) = suffix

\* a mutant: no extension filter
is_audio_any(name) == TRUE

\* any(blob.name.endswith(ext) for ext in self.AUDIO_EXTENSIONS)
is_audio(name) == \E ext \in AUDIO_EXTENSIONS : endswith(name, ext)

\* the position of the last occurrence of part c in name, 0 when there is none
rindex(name, c) ==
    LET at == {k \in 1..Len(name) : name[k] = c}
    IN IF at = {} THEN 0 ELSE CHOOSE k \in at : \A j \in at : j <= k

\* name.rsplit('.', 1)[0]
rsplit_dot(name) ==
    IF rindex(name, ".") = 0 THEN name ELSE SubSeq(name, 1, rindex(name, ".") - 1)

\* blob_name.rsplit('.', 1)[0] + '_transcription.json'
transcription_name(name) == rsplit_dot(name) \o <<"_transcription.json">>

\* Path(blob_name).name
path_name(name) == SubSeq(name, rindex(name, "/") + 1, Len(name))

\* self.temp_dir / Path(blob_name).name
local_path(name) == path_name(name)

LocalPaths == {local_path(n) : n \in AllNames}

(***************************************************************************)
(* Bytes.  [of, len] is the first len bytes of the data the producer       *)
(* placed under the name of; a blob or file that does not exist is NoBlob. *)
(***************************************************************************)
NoBlob == [of |-> <<>>, len |-> -1]

\* open(local_path, 'wb') before anything is written
EmptyBytes == [of |-> <<>>, len |-> 0]

AssetLen(name) == IF name = <<"x", "/", "a", ".", "mp3">> THEN 3 ELSE 2

Original(name) == [of |-> name, len |-> AssetLen(name)]

\* what the container keeps of an upload that lost its tail
Short(bytes) == IF bytes.len <= 0 THEN bytes ELSE [bytes EXCEPT !.len = @ - 1]

\* get_blob_properties().size
size(bytes) == bytes.len

Empty == [n \in AllNames |-> NoBlob]

\* the names a container holds, as list_blobs enumerates them
list_blobs(container) == SelectSeq(BlobOrder, LAMBDA n : container[n] # NoBlob)

ZeroStats ==
    [processed |-> 0, successful |-> 0, failed |-> 0, moved |-> 0, deleted |-> 0,
     errors |-> <<>>]

NoOp == <<"none", <<>>, "none">>

NoSnapshot ==
    [recordings |-> Empty, transcriptions |-> {}, processed_recordings |-> Empty,
     temp_audio |-> [f \in LocalPaths |-> NoBlob], faults |-> 0, failed |-> {}]

\* the blobs for which process_file has failed in this run:
\* self.stats['errors'].append(f"{blob_name}: {e}")
failed_items(st) ==
    {st.errors[k][2] : k \in {j \in 1..Len(st.errors) : st.errors[j][1] = "process"}}

\* storage, Whisper or the process may fail as long as the bound allows
may_fail == faults < MaxFaults

\* an operation's outcome, failed or not, is counted
failing(failed) ==
    /\ failed => may_fail
    /\ faults' = IF failed THEN faults + 1 ELSE faults

\* no operation has failed since this run started
no_fault == faults = at_start.faults

\* the variables of a run, when no run is in progress
NoRun ==
    /\ ppc = "idle"
    /\ batch_size = 0
    /\ listing = <<>>
    /\ i = 0
    /\ pending = <<>>
    /\ orphans = <<>>
    /\ batch_num = 0
    /\ batch_files = <<>>
    /\ successful = <<>>
    /\ moved = <<>>
    /\ stats = ZeroStats
    /\ calls = <<>>
    /\ batches = <<>>
    /\ copied = {}
    /\ probe_errors = {}
    /\ faults = 0
    /\ lastop = NoOp
    /\ at_start = NoSnapshot

\* the pipeline of a deployment that holds no blob and has run nothing
PipeQuiet ==
    /\ recordings = Empty
    /\ transcriptions = {}
    /\ processed_recordings = Empty
    /\ temp_audio = [f \in LocalPaths |-> NoBlob]
    /\ NoRun
    /\ placed = {}
    /\ published = {}
    /\ interrupted = {}
    /\ runs = 0

(***************************************************************************)
(* run_batch_job, one step per guard operation, any number of invocations  *)
(* in any interleaving (the scheduler process, run-once processes).        *)
(***************************************************************************)
GuardInit ==
    /\ file = NoFile
    /\ now = 0
    /\ pc = [p \in Procs |-> "idle"]
    /\ last = NoCall
    /\ prev = NoCall
    /\ cur = NoCall
    /\ released = FALSE
    /\ shown = NoStatus
    /\ PipeQuiet

\* if JobState.is_running(): return
is_running(p) ==
    /\ pc[p] = "idle"
    /\ LET ret == is_running_result(file, now)
           after == is_running_file(file, now)
       IN /\ file' = after
          /\ last' = [p |-> p, before |-> file, at |-> now, ret |-> ret,
                      after |-> after, rel |-> FALSE]
          /\ pc' = [pc EXCEPT ![p] = IF ret THEN RefusedPc ELSE "admitted"]
    /\ UNCHANGED <<now, prev, cur, released, shown>>
    /\ UNCHANGED pvars

\* JobState.mark_running(), inside the try block: the record is written, or
\* open / json.dump raises and leaves the file as it was or cut short.
mark_running(p) ==
    /\ pc[p] = "admitted"
    /\ \/ /\ file' = mark_running_file(now, p)
          /\ pc' = [pc EXCEPT ![p] = "working"]
       \/ /\ file' \in {file, Unreadable}
          /\ pc' = [pc EXCEPT ![p] = "raised"]
    /\ UNCHANGED <<now, last, prev, cur, released, shown>>
    /\ UNCHANGED pvars

\* AzureManager() and manager.process_batch(): returns, or raises
batch_work(p) ==
    /\ pc[p] = "working"
    /\ \E ok \in BOOLEAN : pc' = [pc EXCEPT ![p] = IF ok THEN "worked" ELSE "raised"]
    /\ UNCHANGED <<file, now, last, prev, cur, released, shown>>
    /\ UNCHANGED pvars

\* JobState.mark_complete(success=True, stats=stats) / mark_complete(success=False)
\* A write of mark_complete(success=True) that raises is caught by the same
\* except clause; one of mark_complete(success=False) that raises leaves
\* run_batch_job as crash(p) does.
mark_complete(p) ==
    /\ pc[p] \in {"worked", "raised"}
    /\ \/ /\ file' = mark_complete_file(now, pc[p] = "worked",
                                        IF pc[p] = "worked" THEN "stats" ELSE "none")
          /\ pc' = [pc EXCEPT ![p] = "idle"]
       \/ /\ pc[p] = "worked"
          /\ file' \in {file, Unreadable}
          /\ pc' = [pc EXCEPT ![p] = "raised"]
    /\ UNCHANGED <<now, last, prev, cur, released, shown>>
    /\ UNCHANGED pvars

\* The process is killed: nothing more is written, or a write is cut short.
crash(p) ==
    /\ pc[p] \in {"admitted", "working", "worked", "raised"}
    /\ pc' = [pc EXCEPT ![p] = "idle"]
    /\ \/ UNCHANGED file
       \/ pc[p] # "working" /\ file' = Unreadable
    /\ UNCHANGED <<now, last, prev, cur, released, shown>>
    /\ UNCHANGED pvars

\* KeyboardInterrupt or SystemExit (sys.exit in _signal_handler) raised inside
\* the try block of run_batch_job: neither is an Exception, so the except
\* clause is passed over, only the finally clause logs, and main exits.
keyboard_interrupt(p) ==
    /\ pc[p] \in {"working", "worked", "raised"}
    /\ pc' = [pc EXCEPT ![p] = "exited"]
    /\ UNCHANGED <<file, now, last, prev, cur, released, shown>>
    /\ UNCHANGED pvars

tick ==
    /\ now < MaxTicks * IntervalSeconds
    /\ now' = now + IntervalSeconds
    /\ UNCHANGED <<file, pc, last, prev, cur, released, shown>>
    /\ UNCHANGED pvars

GuardNext ==
    \/ \E p \in Procs : is_running(p)
    \/ \E p \in Procs : mark_running(p)
    \/ \E p \in Procs : batch_work(p)
    \/ \E p \in Procs : mark_complete(p)
    \/ \E p \in Procs : crash(p)
    \/ \E p \in Procs : keyboard_interrupt(p)
    \/ tick

SpecGuard == GuardInit /\ [][GuardNext]_vars

\* An invocation the guard admitted that has not reached mark_complete.
Active(p) == pc[p] \in {"admitted", "working", "worked", "raised"}

(***************************************************************************)
(* Sequential acquires: each attempt runs is_running and, when admitted,   *)
(* mark_running before the next attempt starts.                            *)
(***************************************************************************)
acquire(p) ==
    /\ LET ret == is_running_result(file, now)
           after == is_running_file(file, now)
       IN /\ file' = IF ret THEN after ELSE mark_running_file(now, p)
          /\ cur' = [p |-> p, before |-> file, at |-> now, ret |-> ret,
                     after |-> IF ret THEN after ELSE mark_running_file(now, p),
                     rel |-> released]
    /\ prev' = cur
    /\ released' = FALSE
    /\ UNCHANGED <<now, pc, last, shown>>
    /\ UNCHANGED pvars

\* the admitted run ends: mark_complete
release ==
    /\ file.kind = "record" /\ file.running
    /\ \E ok \in BOOLEAN :
          file' = mark_complete_file(now, ok, IF ok THEN "stats" ELSE "none")
    /\ released' = TRUE
    /\ UNCHANGED <<now, pc, last, prev, cur, shown>>
    /\ UNCHANGED pvars

\* the admitted run is killed while it writes the record
cut_write ==
    /\ file.kind = "record" /\ file.running
    /\ file' = Unreadable
    /\ released' = TRUE
    /\ UNCHANGED <<now, pc, last, prev, cur, shown>>
    /\ UNCHANGED pvars

SeqNext ==
    \/ \E p \in Procs : acquire(p)
    \/ release
    \/ cut_write
    \/ tick

SpecSeq == GuardInit /\ [][SeqNext]_vars

\* The scheduler keeps firing run_batch_job at its interval (the interval
\* trigger of BatchScheduler.start) and the clock keeps running up to the
\* horizon of the model.
SpecRecover ==
    /\ GuardInit
    /\ [][SeqNext]_vars
    /\ WF_vars(tick)
    /\ WF_vars(\E p \in Procs : acquire(p))

(***************************************************************************)
(* AzureProcessor: one run is AzureProcessor() followed by process_all.    *)
(* Every storage operation is a step of its own, with each outcome the     *)
(* backend can give; the process can be killed between any two steps.      *)
(***************************************************************************)
GuardQuiet ==
    /\ file = NoFile
    /\ now = 0
    /\ pc = [p \in Procs |-> "idle"]
    /\ last = NoCall
    /\ prev = NoCall
    /\ cur = NoCall
    /\ released = FALSE
    /\ shown = NoStatus

\* The producer has placed up to MaxFiles blobs; nothing has run yet.
Init ==
    /\ GuardQuiet
    /\ \E S \in SUBSET AllNames :
          /\ Cardinality(S) <= MaxFiles
          /\ recordings = [n \in AllNames |-> IF n \in S THEN Original(n) ELSE NoBlob]
          /\ placed = S
    /\ transcriptions = {}
    /\ processed_recordings = Empty
    /\ temp_audio = [f \in LocalPaths |-> NoBlob]
    /\ NoRun
    /\ published = {}
    /\ interrupted = {}
    /\ runs = 0

\* The process ends without returning from process_all: its memory is gone.
EndRun(op) ==
    /\ ppc' = "idle"
    /\ batch_size' = 0
    /\ listing' = <<>>
    /\ i' = 0
    /\ pending' = <<>>
    /\ orphans' = <<>>
    /\ batch_num' = 0
    /\ batch_files' = <<>>
    /\ successful' = <<>>
    /\ moved' = <<>>
    /\ stats' = ZeroStats
    /\ calls' = <<>>
    /\ batches' = <<>>
    /\ copied' = {}
    /\ probe_errors' = {}
    /\ failing(TRUE)
    /\ lastop' = <<op, <<>>, "error">>
    /\ at_start' = [NoSnapshot EXCEPT !.failed = failed_items(stats)]

\* AzureProcessor.__init__, and process_all up to container.list_blobs()
begin_run ==
    /\ ppc \in {"idle", "done"}
    /\ runs < MaxRuns
    /\ \E b \in 1..MaxBatchSize : batch_size' = b
    /\ ppc' = "scan"
    /\ listing' = list_blobs(recordings)
    /\ i' = 1
    /\ pending' = <<>>
    /\ orphans' = <<>>
    /\ batch_num' = 0
    /\ batch_files' = <<>>
    /\ successful' = <<>>
    /\ moved' = <<>>
    /\ stats' = ZeroStats
    /\ calls' = <<>>
    /\ batches' = <<>>
    /\ copied' = {}
    /\ probe_errors' = {}
    /\ faults' = faults
    /\ lastop' = NoOp
    /\ at_start' = [recordings |-> recordings, transcriptions |-> transcriptions,
                    processed_recordings |-> processed_recordings,
                    temp_audio |-> temp_audio, faults |-> faults,
                    failed |-> IF ppc = "done" THEN failed_items(stats)
                               ELSE at_start.failed]
    /\ runs' = runs + 1
    /\ UNCHANGED <<storage, temp_audio, placed, published, interrupted>>

\* a run of the pipeline on its own
start_run ==
    /\ begin_run
    /\ UNCHANGED gvars

\* a mutant: the probe looks for the blob's own name among the transcriptions
is_processed_by_blob_name(name, probe) ==
    IF probe = "ok" THEN name \in transcriptions ELSE FALSE

\* a mutant: a probe that raises counts as "already processed"
is_processed_unless_error(name, probe) ==
    IF probe = "ok" THEN transcription_name(name) \in transcriptions ELSE TRUE

\* is_processed: the metadata probe answers (found or ResourceNotFoundError),
\* or raises anything else
is_processed(name, probe) ==
    IF probe = "ok" THEN transcription_name(name) \in transcriptions ELSE FALSE

\* find_pending_files: one blob of the listing
scan_blob ==
    /\ ppc = "scan"
    /\ i <= Len(listing)
    /\ LET name == listing[i]
       IN \/ /\ ~is_audio(name)
             /\ UNCHANGED <<pending, orphans, probe_errors, faults, lastop>>
          \/ /\ is_audio(name)
             /\ \E probe \in {"ok", "error"} :
                   /\ IF is_processed(name, probe)
                      THEN orphans' = Append(orphans, name) /\ UNCHANGED pending
                      ELSE pending' = Append(pending, name) /\ UNCHANGED orphans
                   /\ probe_errors' =
                         IF probe = "error" THEN probe_errors \cup {name} ELSE probe_errors
                   /\ failing(probe = "error")
                   /\ lastop' = <<"probe_artifact", name, probe>>
    /\ i' = i + 1
    /\ UNCHANGED <<ppc, batch_size, listing, batch_num, batch_files, successful,
                   moved, stats>>
    /\ UNCHANGED <<calls, batches, copied, at_start, placed, published,
                   interrupted, runs>>
    /\ UNCHANGED <<storage, temp_audio, gvars>>

\* a mutant: the enumeration error is swallowed and the run goes on with
\* what it has classified so far
list_error_swallowed ==
    /\ ppc = "scan"
    /\ failing(TRUE)
    /\ lastop' = <<"list", <<>>, "error">>
    /\ IF orphans # <<>>
       THEN ppc' = "orphan_copy" /\ i' = 1
       ELSE ppc' = "plan" /\ i' = 0
    /\ UNCHANGED <<batch_size, listing, pending, orphans, batch_num, batch_files,
                   successful, moved, stats>>
    /\ UNCHANGED <<calls, batches, copied, probe_errors, at_start, placed,
                   published, interrupted, runs>>
    /\ UNCHANGED <<storage, temp_audio, gvars>>

\* find_pending_files: the enumeration raises, process_all raises with it
list_fails ==
    /\ ppc = "scan"
    /\ EndRun("list")
    /\ UNCHANGED <<storage, temp_audio, placed, published, interrupted, runs>>
    /\ UNCHANGED gvars

\* find_pending_files after the loop: if orphans: self._cleanup_orphans(orphans)
scan_complete ==
    /\ ppc = "scan"
    /\ i > Len(listing)
    /\ IF orphans # <<>>
       THEN ppc' = "orphan_copy" /\ i' = 1
       ELSE ppc' = "plan" /\ i' = 0
    /\ UNCHANGED <<batch_size, listing, pending, orphans, batch_num, batch_files,
                   successful, moved, stats>>
    /\ UNCHANGED <<history, storage, temp_audio, gvars>>

\* source.get_blob_properties().size == dest.get_blob_properties().size
\* a mutant: the copy is not verified
sizes_unchecked(a, b) == TRUE

\* a mutant: the comparison never succeeds
sizes_differ(a, b) == FALSE

sizes_match(a, b) == size(a) = size(b)

\* what _cleanup_orphans hands back to find_pending_files: the function has
\* no return statement, and the caller does not look at its value
cleanup_orphans_returns(orphs) == [kind |-> "None", value |-> 0]

\* a mutant: _cleanup_orphans returns after the orphan at hand
orphans_abandoned ==
    ppc' = "plan" /\ i' = 0

\* for blob_name in orphans: the loop goes on, or _cleanup_orphans returns
next_orphan ==
    IF i < Len(orphans)
    THEN ppc' = "orphan_copy" /\ i' = i + 1
    ELSE ppc' = "plan" /\ i' = 0

\* _cleanup_orphans: download_blob().readall() and upload_blob(data, overwrite=True)
orphan_copy ==
    /\ ppc = "orphan_copy"
    /\ LET name == orphans[i]
           data == recordings[name]
       IN \E o \in {"download_error", "upload_error", "ok", "short"} :
             /\ (data = NoBlob) => (o = "download_error")
             /\ IF o \in {"ok", "short"}
                THEN /\ processed_recordings' =
                           [processed_recordings EXCEPT
                              ![name] = IF o = "ok" THEN data ELSE Short(data)]
                     /\ copied' = copied \cup {name}
                     /\ lastop' = <<"upload_archive", name, o>>
                     /\ ppc' = "orphan_verify"
                     /\ i' = i
                ELSE /\ lastop' = <<IF o = "download_error" THEN "download"
                                    ELSE "upload_archive", name, "error">>
                     /\ next_orphan
                     /\ UNCHANGED <<processed_recordings, copied>>
             /\ failing(o # "ok")
    /\ UNCHANGED <<batch_size, listing, pending, orphans, batch_num, batch_files,
                   successful, moved, stats>>
    /\ UNCHANGED <<calls, batches, probe_errors, at_start, placed, published,
                   interrupted, runs>>
    /\ UNCHANGED <<recordings, transcriptions, temp_audio, gvars>>

\* The verification both archival paths share: probe the two sizes, and
\* source.delete_blob() when they are equal.
verify_and_delete(name, v) ==
    IF v = "probe_error"
    THEN /\ lastop' = <<"probe_sizes", name, "error">>
         /\ failing(TRUE)
         /\ UNCHANGED recordings
    ELSE IF ~sizes_match(recordings[name], processed_recordings[name])
    THEN /\ lastop' = <<"probe_sizes", name, "mismatch">>
         /\ UNCHANGED <<recordings, faults>>
    ELSE IF v = "delete_error"
    THEN /\ lastop' = <<"delete", name, "error">>
         /\ failing(TRUE)
         /\ UNCHANGED recordings
    ELSE /\ lastop' = <<"delete", name, "ok">>
         /\ recordings' = [recordings EXCEPT ![name] = NoBlob]
         /\ UNCHANGED faults

Verdicts == {"probe_error", "delete_error", "delete_ok"}

\* _cleanup_orphans: verify and delete
orphan_verify ==
    /\ ppc = "orphan_verify"
    /\ \E v \in Verdicts : verify_and_delete(orphans[i], v)
    /\ next_orphan
    /\ UNCHANGED <<batch_size, listing, pending, orphans, batch_num, batch_files,
                   successful, moved, stats>>
    /\ UNCHANGED <<calls, batches, copied, probe_errors, at_start, placed,
                   published, interrupted, runs>>
    /\ UNCHANGED <<transcriptions, processed_recordings, temp_audio, gvars>>

(***************************************************************************)
(* process_all: the plan and the batch loop.                               *)
(***************************************************************************)
\* a mutant: the division rounds down
total_batches_floor(total_files, bs) == total_files \div bs

\* total_batches = (total_files + batch_size - 1) // batch_size
total_batches(total_files, bs) == (total_files + bs - 1) \div bs

min(a, b) == IF a <= b THEN a ELSE b

\* pending[start_idx:end_idx], start_idx = batch_num * batch_size,
\* end_idx = min(start_idx + batch_size, total_files)
batch_slice(files, num, bs) ==
    SubSeq(files, num * bs + 1, min(num * bs + bs, Len(files)))

\* a mutant: a failed item is not counted as failed
bump_unless_failed(st, counter) ==
    IF counter = "failed" THEN st ELSE [st EXCEPT ![counter] = @ + 1]

\* self.stats[counter] += 1
bump(st, counter) == [st EXCEPT ![counter] = @ + 1]

log_error(st, tag, name) == [st EXCEPT !.errors = Append(@, <<tag, name>>)]

\* a mutant: the loop ends after its first batch
first_batch_only ==
    /\ ppc' = "report"
    /\ i' = 0
    /\ successful' = <<>>
    /\ moved' = <<>>
    /\ UNCHANGED <<batch_num, batch_files, batches>>

\* for batch_num in range(total_batches): the next batch, or the end of the loop
next_batch ==
    IF batch_num + 1 < total_batches(Len(pending), batch_size)
    THEN /\ ppc' = "download"
         /\ batch_num' = batch_num + 1
         /\ batch_files' = batch_slice(pending, batch_num + 1, batch_size)
         /\ batches' = Append(batches, batch_slice(pending, batch_num + 1, batch_size))
         /\ i' = 1
         /\ successful' = <<>>
         /\ moved' = <<>>
    ELSE /\ ppc' = "report"
         /\ i' = 0
         /\ successful' = <<>>
         /\ moved' = <<>>
         /\ UNCHANGED <<batch_num, batch_files, batches>>

\* the end of one iteration of "for idx, blob_name in enumerate(batch_files, 1)",
\* succ being the batch's successes so far; after the last one,
\* "if successful: self.move_and_delete(successful)"
after_item(succ) ==
    IF i < Len(batch_files)
    THEN /\ ppc' = "download"
         /\ i' = i + 1
         /\ successful' = succ
         /\ UNCHANGED <<batch_num, batch_files, batches, moved>>
    ELSE IF succ # <<>>
    THEN /\ ppc' = "move"
         /\ i' = 1
         /\ successful' = succ
         /\ moved' = <<>>
         /\ UNCHANGED <<batch_num, batch_files, batches>>
    ELSE next_batch

\* process_all from "if not pending" to the first batch
plan ==
    /\ ppc = "plan"
    /\ IF pending = <<>>
       THEN /\ ppc' = "report"
            /\ UNCHANGED <<batch_num, batch_files, batches, i, faults, lastop>>
       ELSE \E whisper \in {"ok", "error"} :
               IF whisper = "error"
               THEN /\ ppc' = "done"
                    /\ failing(TRUE)
                    /\ lastop' = <<"whisper_init", <<>>, "error">>
                    /\ UNCHANGED <<batch_num, batch_files, batches, i>>
               ELSE IF 0 < total_batches(Len(pending), batch_size)
               THEN /\ ppc' = "download"
                    /\ batch_num' = 0
                    /\ batch_files' = batch_slice(pending, 0, batch_size)
                    /\ batches' = <<batch_slice(pending, 0, batch_size)>>
                    /\ i' = 1
                    /\ UNCHANGED <<faults, lastop>>
               ELSE /\ ppc' = "report"
                    /\ UNCHANGED <<batch_num, batch_files, batches, i, faults, lastop>>
    /\ UNCHANGED <<batch_size, listing, pending, orphans, successful, moved, stats>>
    /\ UNCHANGED <<calls, copied, probe_errors, at_start, placed, published,
                   interrupted, runs>>
    /\ UNCHANGED <<storage, temp_audio, gvars>>

\* process_file: open(local_path, 'wb') and blob.download_blob().readall();
\* when it raises, process_all counts the item as failed
process_file_download ==
    /\ ppc = "download"
    /\ LET name == batch_files[i]
           path == local_path(name)
       IN \E o \in {"ok", "error"} :
             /\ (recordings[name] = NoBlob) => (o = "error")
             /\ calls' = Append(calls, name)
             /\ lastop' = <<"download", name, o>>
             /\ IF o = "ok"
                THEN /\ temp_audio' = [temp_audio EXCEPT ![path] = recordings[name]]
                     /\ ppc' = "transcribe"
                     /\ UNCHANGED <<i, successful, moved, stats, batch_num,
                                    batch_files, batches, faults>>
                ELSE /\ temp_audio' = [temp_audio EXCEPT ![path] = EmptyBytes]
                     /\ stats' = bump(bump(log_error(stats, "process", name),
                                           "processed"), "failed")
                     /\ failing(TRUE)
                     /\ after_item(successful)
    /\ UNCHANGED <<batch_size, listing, pending, orphans>>
    /\ UNCHANGED <<copied, probe_errors, at_start, placed, published, interrupted,
                   runs>>
    /\ UNCHANGED <<storage, gvars>>

\* process_file: processor.process_audio_file and the upload of the
\* transcription; then process_all counts the result
process_file_transcribe ==
    /\ ppc = "transcribe"
    /\ LET name == batch_files[i]
       IN \E o \in {"ok", "whisper_failed", "upload_error"} :
             IF o = "ok"
             THEN /\ transcriptions' = transcriptions \cup {transcription_name(name)}
                  /\ published' = published \cup {name}
                  /\ lastop' = <<"upload_artifact", name, "ok">>
                  /\ stats' = bump(bump(stats, "processed"), "successful")
                  /\ after_item(Append(successful, name))
                  /\ UNCHANGED faults
             ELSE /\ lastop' = <<IF o = "upload_error" THEN "upload_artifact"
                                 ELSE "transcribe", name, "error">>
                  /\ stats' = bump(bump(log_error(stats, "process", name),
                                        "processed"), "failed")
                  /\ failing(TRUE)
                  /\ after_item(successful)
                  /\ UNCHANGED <<transcriptions, published>>
    /\ UNCHANGED <<batch_size, listing, pending, orphans>>
    /\ UNCHANGED <<calls, copied, probe_errors, at_start, placed, interrupted, runs>>
    /\ UNCHANGED <<recordings, processed_recordings, temp_audio, gvars>>

\* a mutant: the item joins moved whether its upload raised or not
moved_always(mv, name, o) == Append(mv, name)

\* moved.append(blob_name), which a raising upload skips
moved_after(mv, name, o) == IF o = "error" THEN mv ELSE Append(mv, name)

\* move_and_delete, [1/2]: upload the staged file of one successful item
move_and_delete_move ==
    /\ ppc = "move"
    /\ LET name == successful[i]
           data == temp_audio[local_path(name)]
       IN \E o \in {"ok", "short", "error"} :
             /\ (data = NoBlob) => (o = "error")
             /\ lastop' = <<"upload_archive", name, o>>
             /\ failing(o # "ok")
             /\ IF o = "error"
                THEN /\ stats' = log_error(stats, "Move failed", name)
                     /\ UNCHANGED <<processed_recordings, copied>>
                ELSE /\ processed_recordings' =
                           [processed_recordings EXCEPT
                              ![name] = IF o = "ok" THEN data ELSE Short(data)]
                     /\ copied' = copied \cup {name}
                     /\ stats' = bump(stats, "moved")
             /\ moved' = moved_after(moved, name, o)
             /\ IF i < Len(successful)
                THEN ppc' = "move" /\ i' = i + 1
                ELSE IF moved_after(moved, name, o) # <<>>
                THEN ppc' = "delete" /\ i' = 1
                ELSE ppc' = "cleanup" /\ i' = 0
    /\ UNCHANGED <<batch_size, listing, pending, orphans, batch_num, batch_files,
                   successful>>
    /\ UNCHANGED <<calls, batches, probe_errors, at_start, placed, published,
                   interrupted, runs>>
    /\ UNCHANGED <<recordings, transcriptions, temp_audio, gvars>>

\* move_and_delete, [2/2]: verify one moved item and delete it from recordings
move_and_delete_delete ==
    /\ ppc = "delete"
    /\ LET name == moved[i]
       IN \E v \in Verdicts :
             /\ verify_and_delete(name, v)
             /\ stats' =
                  IF v = "probe_error" THEN log_error(stats, "Delete failed", name)
                  ELSE IF ~sizes_match(recordings[name], processed_recordings[name])
                  THEN stats
                  ELSE IF v = "delete_error"
                  THEN log_error(stats, "Delete failed", name)
                  ELSE bump(stats, "deleted")
    /\ IF i < Len(moved)
       THEN ppc' = "delete" /\ i' = i + 1
       ELSE ppc' = "cleanup" /\ i' = 0
    /\ UNCHANGED <<batch_size, listing, pending, orphans, batch_num, batch_files,
                   successful, moved>>
    /\ UNCHANGED <<calls, batches, copied, probe_errors, at_start, placed,
                   published, interrupted, runs>>
    /\ UNCHANGED <<transcriptions, processed_recordings, temp_audio, gvars>>

\* move_and_delete, "Cleanup temp files", and the step to the next batch
move_and_delete_cleanup ==
    /\ ppc = "cleanup"
    /\ temp_audio' =
          [f \in LocalPaths |->
              IF \E k \in 1..Len(successful) : local_path(successful[k]) = f
              THEN NoBlob ELSE temp_audio[f]]
    /\ next_batch
    /\ UNCHANGED <<batch_size, listing, pending, orphans, stats>>
    /\ UNCHANGED <<calls, copied, probe_errors, faults, lastop, at_start, placed,
                   published, interrupted, runs>>
    /\ UNCHANGED <<storage, gvars>>

(***************************************************************************)
(* The report.  Success rates are kept in tenths of a percent, as the       *)
(* reports print them ("{success_rate:.1f}%").                              *)
(***************************************************************************)
\* what a division by zero leaves in place of a rate
ZeroDivisionError == -1

\* no rate is computed
NoRate == -2

\* (stats['successful'] / stats['processed']) * 100
divide(a, b) == IF b = 0 THEN ZeroDivisionError ELSE (a * 1000) \div b

\* a mutant: the rate is computed whatever was processed
rate_unguarded(st) == divide(st.successful, st.processed)

\* process_all, final summary: if self.stats['processed'] > 0
summary_success_rate(st) ==
    IF st.processed > 0 THEN divide(st.successful, st.processed) ELSE NoRate

\* _create_text_report: if stats.get('processed', 0) > 0
text_success_rate(st) ==
    IF st.processed > 0 THEN divide(st.successful, st.processed) ELSE NoRate

\* _create_html_report: success_rate = 0, then the same condition
html_success_rate(st) ==
    IF st.processed > 0 THEN divide(st.successful, st.processed) ELSE 0

\* the rates a run computes: the final summary (not on the "No pending
\* files" path) and, when send_report builds the two bodies, theirs
rates(st, summary, built) ==
    <<IF summary THEN summary_success_rate(st) ELSE NoRate,
      IF built THEN text_success_rate(st) ELSE NoRate,
      IF built THEN html_success_rate(st) ELSE NoRate>>

\* a mutant: send_report has no except clause, so an error of the mail
\* server leaves process_all as an exception
send_report_raises ==
    /\ ppc = "report"
    /\ \E smtp \in {"ok", "error"} :
          /\ lastop' = <<"send_report", rates(stats, pending # <<>>, TRUE), smtp>>
          /\ failing(smtp = "error")
          /\ ppc' = IF smtp = "error" THEN "idle" ELSE "done"
    /\ UNCHANGED <<batch_size, listing, i, pending, orphans, batch_num,
                   batch_files, successful, moved, stats>>
    /\ UNCHANGED <<calls, batches, copied, probe_errors, at_start, placed,
                   published, interrupted, runs>>
    /\ UNCHANGED <<storage, temp_audio, gvars>>

\* process_all, the final summary and "Send email report" (also on the "No
\* pending files" path): send_report is called when email is enabled; it
\* returns before building anything when nothing was processed; an
\* exception while building or sending is printed and False is returned.
send_report ==
    /\ ppc = "report"
    /\ ppc' = "done"
    /\ \E enabled \in BOOLEAN, smtp \in {"ok", "error"} :
          IF ~enabled
          THEN /\ smtp = "ok"
               /\ lastop' = <<"no_report", rates(stats, pending # <<>>, FALSE), "disabled">>
               /\ UNCHANGED faults
          ELSE IF stats.processed = 0
          THEN /\ smtp = "ok"
               /\ lastop' = <<"no_report", rates(stats, pending # <<>>, FALSE), "skipped">>
               /\ UNCHANGED faults
          ELSE IF ZeroDivisionError \in {text_success_rate(stats), html_success_rate(stats)}
          THEN /\ smtp = "ok"
               /\ lastop' = <<"send_report", rates(stats, pending # <<>>, TRUE), "error">>
               /\ UNCHANGED faults
          ELSE /\ lastop' = <<"send_report", rates(stats, pending # <<>>, TRUE), smtp>>
               /\ failing(smtp = "error")
    /\ UNCHANGED <<batch_size, listing, i, pending, orphans, batch_num,
                   batch_files, successful, moved, stats>>
    /\ UNCHANGED <<calls, batches, copied, probe_errors, at_start, placed,
                   published, interrupted, runs>>
    /\ UNCHANGED <<storage, temp_audio, gvars>>

\* The process is killed in the middle of a run.
kill_run ==
    /\ ppc \notin {"idle", "done"}
    /\ EndRun("kill")
    /\ interrupted' = {n \in published : recordings[n] # NoBlob}
    /\ UNCHANGED <<storage, temp_audio, placed, published, runs>>
    /\ UNCHANGED gvars

Next ==
    \/ start_run
    \/ scan_blob
    \/ list_fails
    \/ scan_complete
    \/ orphan_copy
    \/ orphan_verify
    \/ plan
    \/ process_file_download
    \/ process_file_transcribe
    \/ move_and_delete_move
    \/ move_and_delete_delete
    \/ move_and_delete_cleanup
    \/ send_report
    \/ kill_run

Spec == Init /\ [][Next]_vars

(***************************************************************************)
(* run_batch_job as a whole: one scheduler process whose manager.process_  *)
(* batch() is the pipeline's process_all.                                  *)
(***************************************************************************)
JobProc == 1

\* if JobState.is_running(): return, then JobState.mark_running()
job_acquire ==
    /\ ppc \in {"idle", "done"}
    /\ \/ is_running(JobProc)
       \/ mark_running(JobProc)

\* manager = AzureManager(); manager.process_batch() is entered
job_process_batch ==
    /\ pc[JobProc] = "working"
    /\ begin_run
    /\ pc' = [pc EXCEPT ![JobProc] = "processing"]
    /\ UNCHANGED <<file, now, last, prev, cur, released, shown>>

\* the steps of process_all, inside manager.process_batch()
job_step ==
    /\ pc[JobProc] = "processing"
    /\ \/ scan_blob
       \/ list_fails
       \/ scan_complete
       \/ orphan_copy
       \/ orphan_verify
       \/ plan
       \/ process_file_download
       \/ process_file_transcribe
       \/ move_and_delete_move
       \/ move_and_delete_delete
       \/ move_and_delete_cleanup
       \/ send_report

\* manager.process_batch() returns, or raises what find_pending_files raised
job_returns ==
    /\ pc[JobProc] = "processing"
    /\ ppc \in {"done", "idle"}
    /\ pc' = [pc EXCEPT ![JobProc] = IF ppc = "done" THEN "worked" ELSE "raised"]
    /\ UNCHANGED <<file, now, last, prev, cur, released, shown>>
    /\ UNCHANGED pvars

\* JobState.mark_complete(success=True, stats=stats) / mark_complete(success=False)
job_release ==
    /\ pc[JobProc] \in {"worked", "raised"}
    /\ mark_complete(JobProc)

JobNext ==
    \/ job_acquire
    \/ job_process_batch
    \/ job_step
    \/ job_returns
    \/ job_release

SpecJob == Init /\ [][JobNext]_vars

(***************************************************************************)
(* The scan alone, from every content of the source container and of the   *)
(* transcriptions container that runs and the producer can leave behind:   *)
(* an audio blob that is absent while its transcription exists is archived.*)
(***************************************************************************)
ScanInit ==
    /\ GuardQuiet
    /\ \E S \in SUBSET AllNames :
       \E T \in SUBSET {transcription_name(n) : n \in {m \in AllNames : is_audio(m)}} :
          LET archived == {n \in AllNames \ S :
                              is_audio(n) /\ transcription_name(n) \in T}
          IN /\ recordings = [n \in AllNames |-> IF n \in S THEN Original(n) ELSE NoBlob]
             /\ transcriptions = T
             /\ processed_recordings =
                   [n \in AllNames |-> IF n \in archived THEN Original(n) ELSE NoBlob]
             /\ placed = S \cup archived
    /\ temp_audio = [f \in LocalPaths |-> NoBlob]
    /\ NoRun
    /\ published = {}
    /\ interrupted = {}
    /\ runs = 0

ScanNext ==
    \/ start_run
    \/ scan_blob
    \/ list_fails
    \/ scan_complete

SpecScan == ScanInit /\ [][ScanNext]_vars

(***************************************************************************)
(* The batch loop of process_all alone, for longer pending lists: item k   *)
(* stands for the k-th pending blob name, process_file and move_and_delete *)
(* are single steps.                                                       *)
(***************************************************************************)
MaxPending == 10
MaxBatch == 4

BatchInit ==
    /\ GuardQuiet
    /\ recordings = Empty
    /\ transcriptions = {}
    /\ processed_recordings = Empty
    /\ temp_audio = [f \in LocalPaths |-> NoBlob]
    /\ ppc = "plan"
    /\ \E n \in 0..MaxPending : pending = [k \in 1..n |-> k]
    /\ \E b \in 1..MaxBatch : batch_size = b
    /\ listing = <<>>
    /\ i = 0
    /\ orphans = <<>>
    /\ batch_num = 0
    /\ batch_files = <<>>
    /\ successful = <<>>
    /\ moved = <<>>
    /\ stats = ZeroStats
    /\ calls = <<>>
    /\ batches = <<>>
    /\ copied = {}
    /\ probe_errors = {}
    /\ faults = 0
    /\ lastop = NoOp
    /\ at_start = NoSnapshot
    /\ placed = {}
    /\ published = {}
    /\ interrupted = {}
    /\ runs = 1

\* process_all, the body of the item loop: process_file(blob_name) and the
\* count of its result
batch_item ==
    /\ ppc = "download"
    /\ calls' = Append(calls, batch_files[i])
    /\ \E ok \in BOOLEAN :
          IF ok
          THEN /\ stats' = bump(bump(stats, "processed"), "successful")
               /\ after_item(Append(successful, batch_files[i]))
          ELSE /\ stats' = bump(bump(stats, "processed"), "failed")
               /\ after_item(successful)
    /\ UNCHANGED <<batch_size, listing, pending, orphans>>
    /\ UNCHANGED <<copied, probe_errors, faults, lastop, at_start, placed, published,
                   interrupted, runs>>
    /\ UNCHANGED <<storage, temp_audio, gvars>>

\* process_all: self.move_and_delete(successful), and on to the next batch
batch_archive ==
    /\ ppc = "move"
    /\ next_batch
    /\ UNCHANGED <<batch_size, listing, pending, orphans, stats>>
    /\ UNCHANGED <<calls, copied, probe_errors, faults, lastop, at_start, placed,
                   published, interrupted, runs>>
    /\ UNCHANGED <<storage, temp_audio, gvars>>

BatchNext ==
    \/ plan
    \/ batch_item
    \/ batch_archive
    \/ send_report

SpecBatch == BatchInit /\ [][BatchNext]_vars

(***************************************************************************)
(* The report alone, from every count of processed and successful items up *)
(* to MaxProcessed: process_all's final summary and send_report, and the    *)
(* two report bodies built directly from the statistics.                    *)
(***************************************************************************)
MaxProcessed == 4

ReportInit ==
    /\ GuardQuiet
    /\ recordings = Empty
    /\ transcriptions = {}
    /\ processed_recordings = Empty
    /\ temp_audio = [f \in LocalPaths |-> NoBlob]
    /\ ppc = "report"
    /\ \E n \in 0..MaxProcessed, ok \in 0..MaxProcessed, mv \in 0..MaxProcessed :
          /\ mv <= ok /\ ok <= n
          /\ pending = [k \in 1..n |-> k]
          /\ stats = [processed |-> n, successful |-> ok, failed |-> n - ok,
                      moved |-> mv, deleted |-> mv, errors |-> <<>>]
    /\ batch_size = 1
    /\ listing = <<>>
    /\ i = 0
    /\ orphans = <<>>
    /\ batch_num = 0
    /\ batch_files = <<>>
    /\ successful = <<>>
    /\ moved = <<>>
    /\ calls = <<>>
    /\ batches = <<>>
    /\ copied = {}
    /\ probe_errors = {}
    /\ faults = 0
    /\ lastop = NoOp
    /\ at_start = NoSnapshot
    /\ placed = {}
    /\ published = {}
    /\ interrupted = {}
    /\ runs = 1

\* _create_text_report(stats) and _create_html_report(stats), called on the
\* statistics as they are
create_reports ==
    /\ ppc = "report"
    /\ ppc' = "done"
    /\ lastop' = <<"create_reports", rates(stats, FALSE, TRUE),
                   IF ZeroDivisionError \in {text_success_rate(stats),
                                             html_success_rate(stats)}
                   THEN "error" ELSE "ok">>
    /\ UNCHANGED <<batch_size, listing, i, pending, orphans, batch_num,
                   batch_files, successful, moved, stats>>
    /\ UNCHANGED <<calls, batches, copied, probe_errors, faults, at_start, placed,
                   published, interrupted, runs>>
    /\ UNCHANGED <<storage, temp_audio, gvars>>

ReportNext ==
    \/ send_report
    \/ create_reports

SpecReport == ReportInit /\ [][ReportNext]_vars

(***************************************************************************)
(* The status command, from every lock record the scheduler can leave      *)
(* behind at a time of the clock: no file, a cut-short file, the record of  *)
(* a run in progress since an earlier tick, the record of a finished run.   *)
(***************************************************************************)
Times == {k * IntervalSeconds : k \in 0..MaxTicks}

StatusInit ==
    /\ now \in Times
    /\ file \in {NoFile, Unreadable}
                \cup {mark_running_file(t, p) : t \in {u \in Times : u <= now}, p \in Procs}
                \cup {mark_complete_file(t, ok, st) :
                         t \in {u \in Times : u <= now}, ok \in BOOLEAN,
                         st \in {"stats", "none"}}
    /\ pc = [p \in Procs |-> "idle"]
    /\ last = NoCall
    /\ prev = NoCall
    /\ cur = NoCall
    /\ released = FALSE
    /\ shown = NoStatus
    /\ PipeQuiet

\* main, command 'status': last_run = JobState.get_last_run() and the prints
status ==
    /\ shown' = get_last_run(file)
    /\ file' = status_file(file, now)
    /\ UNCHANGED <<now, pc, last, prev, cur, released>>
    /\ UNCHANGED pvars

StatusNext ==
    \/ status
    \/ tick

SpecStatus == StatusInit /\ [][StatusNext]_vars

(***************************************************************************)
(* Claims about the run guard.                                             *)
(***************************************************************************)

\* C1: at most one run is active at any time: no reachable state has two
\* invocations of run_batch_job that the guard admitted and that have not
\* reached mark_complete, whatever the interleaving of their steps and
\* however long a run lasts.
C1_AtMostOneActive == Cardinality({p \in Procs : Active(p)}) <= 1

\* The two latest sequential attempts, with no release between them and less
\* than the staleness threshold elapsed from the first to the second.
TwoAcquires ==
    /\ prev.p # 0
    /\ cur.p # 0
    /\ ~cur.rel
    /\ cur.at - prev.at < StaleSeconds

\* The record an attempt found was a running record that is not stale.
FoundFreshRunning(a) ==
    /\ a.before.kind = "record"
    /\ a.before.running
    /\ a.before.start_time # NoKey
    /\ a.at - a.before.start_time <= StaleSeconds

\* C2 (as claimed): from any persisted record state (absent, completed or
\* running), of two sequential acquire attempts with no release between them
\* and less than the threshold elapsed, the first is admitted and the second
\* is refused.
C2_FirstAdmittedSecondRefused == TwoAcquires => (~prev.ret /\ cur.ret)

\* C2 (amended): of two such attempts, the first is admitted exactly when
\* the record it found is not a running record within the threshold; when
\* the first is admitted the second is refused, so exactly one succeeds; when
\* the first is refused the second is refused too, unless the record the
\* first one found has aged past the threshold by then, and then it is
\* admitted.  Never are both admitted.
C2_AdmittedThenRefused ==
    TwoAcquires =>
        /\ prev.ret <=> FoundFreshRunning(prev)
        /\ ~prev.ret => cur.ret
        /\ prev.ret => (cur.ret <=> cur.at - prev.before.start_time <= StaleSeconds)

C2_Witness ==
    /\ TwoAcquires
    /\ ~prev.ret
    /\ cur.ret
    /\ prev.before.kind = "record"
    /\ cur.at > prev.at

\* C3: whenever the record's start_time is more than 7200 seconds before now,
\* is_running removes the record and returns False; when the record has
\* running=true and its age does not exceed the threshold, is_running returns
\* True and leaves the record unchanged.
C3_SelfHeal ==
    last.p # 0 =>
        /\ (last.before.start_time # NoKey
              /\ last.at - last.before.start_time > StaleSeconds)
           => (~last.ret /\ last.after = NoFile)
        /\ (last.before.start_time # NoKey
              /\ last.before.running
              /\ last.at - last.before.start_time <= StaleSeconds)
           => (last.ret /\ last.after = last.before)

C3_Witness ==
    /\ last.p # 0
    /\ last.before.running
    /\ last.at - last.before.start_time > StaleSeconds
    /\ last.after = NoFile
    /\ pc[last.p] = "admitted"

(***************************************************************************)
(* Claims about the pipeline.                                              *)
(***************************************************************************)
InSeq(x, seq) == \E k \in 1..Len(seq) : seq[k] = x

IsPrefix(seq, whole) ==
    /\ Len(seq) <= Len(whole)
    /\ seq = SubSeq(whole, 1, Len(seq))

RECURSIVE Concat(_)
Concat(seqs) == IF seqs = <<>> THEN <<>> ELSE Head(seqs) \o Concat(Tail(seqs))

\* the extension filter of the scan, written out
Eligible(n) == \E ext \in AUDIO_EXTENSIONS : endswith(n, ext)

\* a step of one of the two verifications, and the blob it verifies
VerifyStep == ppc \in {"orphan_verify", "delete"} /\ ppc' # "idle"

Verified == IF ppc = "orphan_verify" THEN orphans[i] ELSE moved[i]

\* a step of one of the two archive copies
CopyStep == ppc \in {"orphan_copy", "move"} /\ ppc' # "idle"

\* C4: a source blob is deleted only after verification.  In move_and_delete
\* [2/2] and in _cleanup_orphans alike, a blob leaves recordings only in a
\* verification step on that blob; the blob verified had its archive upload
\* acknowledged; delete is issued if and only if the size probe answered and
\* the two sizes are equal; on a mismatch or a probe error the source blob
\* is still there, and no copy step, failed or not, removes a source blob.
C4_DeleteOnlyVerified ==
    [][ /\ \A n \in AllNames :
              (recordings[n] # NoBlob /\ recordings'[n] = NoBlob)
                 => (VerifyStep /\ n = Verified)
        /\ VerifyStep =>
              LET n == Verified
                  equal == size(recordings[n]) = size(processed_recordings[n])
                  probed == lastop' # <<"probe_sizes", n, "error">>
              IN /\ n \in copied
                 /\ processed_recordings[n] # NoBlob
                 /\ (lastop'[1] = "delete") <=> (probed /\ equal)
                 /\ (recordings'[n] = NoBlob) <=> (lastop' = <<"delete", n, "ok">>)
                 /\ (~probed \/ ~equal)
                       => (recordings' = recordings /\ recordings[n] # NoBlob)
        /\ CopyStep => recordings' = recordings
      ]_vars

\* one run kept a blob whose archive copy came out short and deleted another
C4_Witness ==
    \E n, m \in AllNames :
       /\ n # m
       /\ lastop = <<"delete", n, "ok">>
       /\ recordings[n] = NoBlob
       /\ processed_recordings[n] # NoBlob
       /\ m \in copied
       /\ recordings[m] # NoBlob
       /\ size(recordings[m]) # size(processed_recordings[m])

\* C5: no asset is ever lost.  In every reachable state, every asset placed
\* in the source container is held, with the bytes the producer placed, by
\* the source container or by the archive container.
C5_NoAssetLost ==
    \A n \in placed :
       \/ recordings[n] = Original(n)
       \/ processed_recordings[n] = Original(n)

\* C6: crash recovery of archival.  After a run was killed when a blob had
\* its transcription published and was still in the source, the next run's
\* scan, its probe of that blob answering, puts the blob among the orphans
\* and not among the pending; and when no operation of that run has failed
\* by the end of the orphan reconciliation, the blob is gone from the source
\* and the archive blob of its name holds the bytes the source held.
C6_OrphanRecovery ==
    \A n \in interrupted :
       (at_start.recordings[n] # NoBlob) =>
          /\ (ppc \notin {"idle", "scan"} /\ n \notin probe_errors)
                => (InSeq(n, orphans) /\ ~InSeq(n, pending))
          /\ (ppc = "plan" /\ no_fault)
                => /\ InSeq(n, orphans)
                   /\ recordings[n] = NoBlob
                   /\ processed_recordings[n] = at_start.recordings[n]

\* the kill came between the archive copy and the delete; the next run has
\* reconciled the orphan, overwriting the archive blob
C6_Witness ==
    /\ ppc = "plan"
    /\ no_fault
    /\ \E n \in interrupted :
          /\ at_start.recordings[n] # NoBlob
          /\ at_start.processed_recordings[n] # NoBlob
          /\ recordings[n] = NoBlob
          /\ processed_recordings[n] = Original(n)

\* the scan has returned
ScanDone == ppc \in {"orphan_copy", "plan"}

\* C7, as stated: the bins are decided by blob existence alone.  After the
\* scan, pending is the eligible blobs of the listing without a
\* transcription, orphans is those with one, both in listing order.
C7_ByExistence ==
    ScanDone =>
       /\ pending = SelectSeq(listing, LAMBDA n :
                       Eligible(n) /\ transcription_name(n) \notin transcriptions)
       /\ orphans = SelectSeq(listing, LAMBDA n :
                       Eligible(n) /\ transcription_name(n) \in transcriptions)

\* C7, amended: the bins are decided by the answer of the probe.  After the
\* scan, orphans is the eligible blobs of the listing whose probe answered
\* and found the transcription, pending is every other eligible blob (no
\* transcription, or a probe that raised), both in listing order; the bins
\* are disjoint and hold the eligible blobs and nothing else; with no probe
\* error the bins are those of blob existence, and 3 eligible blobs with an
\* empty transcriptions container give 3 pending and 0 orphans.
C7_ByProbe ==
    ScanDone =>
       /\ pending = SelectSeq(listing, LAMBDA n :
                       Eligible(n) /\ (transcription_name(n) \notin transcriptions
                                        \/ n \in probe_errors))
       /\ orphans = SelectSeq(listing, LAMBDA n :
                       Eligible(n) /\ transcription_name(n) \in transcriptions
                                   /\ n \notin probe_errors)
       /\ \A n \in AllNames :
             /\ ~(InSeq(n, pending) /\ InSeq(n, orphans))
             /\ (InSeq(n, pending) \/ InSeq(n, orphans))
                   <=> (InSeq(n, listing) /\ Eligible(n))
       /\ (probe_errors = {}) =>
             \A n \in AllNames :
                InSeq(n, orphans) <=> /\ InSeq(n, listing)
                                      /\ Eligible(n)
                                      /\ transcription_name(n) \in transcriptions
       /\ (transcriptions = {}
             /\ Cardinality({n \in AllNames : InSeq(n, listing) /\ Eligible(n)}) = 3)
             => (Len(pending) = 3 /\ orphans = <<>>)

\* 3 eligible blobs and others in the source, no transcription: 3 pending
C7_Witness ==
    /\ ScanDone
    /\ transcriptions = {}
    /\ Len(listing) > 3
    /\ Len(pending) = 3
    /\ orphans = <<>>

\* the run found no eligible blob in the source container
NoEligibleAtStart ==
    \A n \in AllNames : (at_start.recordings[n] # NoBlob) => ~Eligible(n)

\* C8: idempotence on archived assets.  A run that finds no eligible blob in
\* the source, at every point of it: the three containers and the staging
\* directory are as the run found them, no upload, download or delete was
\* issued, process_file was not called, and all counters are zero.
C8_ArchivedNoOp ==
    (ppc # "idle" /\ runs > 0 /\ NoEligibleAtStart) =>
       /\ recordings = at_start.recordings
       /\ transcriptions = at_start.transcriptions
       /\ processed_recordings = at_start.processed_recordings
       /\ temp_audio = at_start.temp_audio
       /\ stats = ZeroStats
       /\ calls = <<>>
       /\ copied = {}
       /\ lastop[1] \notin {"download", "upload_artifact", "upload_archive", "delete"}

\* a second run has ended, after the first run archived what was placed
C8_Witness ==
    /\ ppc = "done"
    /\ runs >= 2
    /\ NoEligibleAtStart
    /\ \E n \in placed :
          /\ recordings[n] = NoBlob
          /\ processed_recordings[n] = Original(n)
    /\ \A n \in placed : Eligible(n) => recordings[n] = NoBlob

\* the run ended at run level, before the batch loop
RunAborted == lastop[1] = "whisper_init"

\* ceil(n / b), not by the code's formula
Ceil(n, b) == CHOOSE k \in 0..n : k * b >= n /\ (k = 0 \/ (k - 1) * b < n)

\* C9: batching.  The batches formed so far are contiguous windows of
\* pending, one after the other from its start; every batch but the latest
\* has batch_size items and the latest has 1..batch_size; process_file is
\* called on the items in pending order, never on an item of a batch before
\* the batches before it are through; and a run that reaches its end
\* without a run-level abort has formed ceil(n / b) batches covering all of
\* pending and has called process_file exactly once per pending item.
C9_Batching ==
    /\ IsPrefix(Concat(batches), pending)
    /\ IsPrefix(calls, Concat(batches))
    /\ \A k \in 1..Len(batches) : Len(batches[k]) \in 1..batch_size
    /\ \A k \in 1..Len(batches) - 1 : Len(batches[k]) = batch_size
    /\ (batches # <<>>) =>
          /\ batch_files = batches[Len(batches)]
          /\ batch_num = Len(batches) - 1
          /\ Len(calls) >= Len(Concat(batches)) - Len(batch_files)
    /\ (ppc = "done" /\ ~RunAborted) =>
          /\ Len(batches) = Ceil(Len(pending), batch_size)
          /\ Concat(batches) = pending
          /\ calls = pending

\* 10 pending items, batch size 4: batches of 4, 4 and 2, some item failing
C9_Witness ==
    /\ ppc = "done"
    /\ Len(pending) = 10
    /\ batch_size = 4
    /\ [k \in 1..Len(batches) |-> Len(batches[k])] = <<4, 4, 2>>
    /\ calls = pending
    /\ stats.failed > 0

\* C10: per-item failure isolation.  Whatever items failed in process_file,
\* a run that reaches its end without a run-level abort has called
\* process_file on every pending item, and processed is the number of
\* pending items, every one counted as successful or as failed, every
\* failed one with its entry in errors.
C10_FailureIsolation ==
    (ppc = "done" /\ ~RunAborted) =>
       /\ calls = pending
       /\ stats.processed = Len(pending)
       /\ stats.successful + stats.failed = stats.processed
       /\ stats.failed =
             Cardinality({k \in 1..Len(stats.errors) : stats.errors[k][1] = "process"})

\* the first of two pending items failed, the second succeeded
C10_Witness ==
    /\ ppc = "done"
    /\ Len(pending) = 2
    /\ stats.processed = 2
    /\ stats.failed = 1
    /\ stats.successful = 1
    /\ stats.errors # <<>>
    /\ stats.errors[1] = <<"process", pending[1]>>
    /\ transcription_name(pending[2]) \in transcriptions

\* how many times process_file was called on n in this run
Attempts(n) == Cardinality({k \in 1..Len(calls) : calls[k] = n})

\* C11: a failed item is left untouched and is retried only by the next run.
\* A blob for which process_file has failed in this run is in the source as
\* the run found it, has no transcription under its artifact name unless
\* the run found one there, has the archive blob the run found, was passed
\* to process_file once; and once the next run has scanned, every blob for
\* which process_file failed in the run before is among its pending.
C11_FailedUntouched ==
    /\ (ppc # "idle") =>
          \A n \in failed_items(stats) :
             /\ recordings[n] # NoBlob
             /\ recordings[n] = at_start.recordings[n]
             /\ (transcription_name(n) \in transcriptions)
                   => (transcription_name(n) \in at_start.transcriptions)
             /\ processed_recordings[n] = at_start.processed_recordings[n]
             /\ Attempts(n) = 1
    /\ (ppc \notin {"idle", "scan"}) =>
          \A n \in at_start.failed : InSeq(n, pending)

\* the blobs whose [1/2] upload has raised in this run
move_failed == {stats.errors[k][2] :
                   k \in {j \in 1..Len(stats.errors) : stats.errors[j][1] = "Move failed"}}

\* C12: two strictly ordered archival phases.  Within one move_and_delete
\* call no step of [1/2] removes a source blob, [2/2] begins only when the
\* upload of every successful item of the batch has been attempted, no
\* upload follows a step of [2/2], and [2/2] probes and deletes only blobs
\* of moved; a blob whose [1/2] upload raised is not in moved and is still
\* in the source, as the run found it.
C12_PhasesOrdered ==
    [][ /\ (ppc = "move") =>
              /\ recordings' = recordings
              /\ (ppc' = "move") => (i < Len(successful) /\ i' = i + 1)
              /\ (ppc' \in {"delete", "cleanup"}) => (i = Len(successful))
        /\ (ppc = "delete") =>
              /\ ppc' \in {"delete", "cleanup", "idle"}
              /\ processed_recordings' = processed_recordings
              /\ \A n \in AllNames : (recordings'[n] # recordings[n]) => (n = moved[i])
              /\ (ppc' # "idle") =>
                    (lastop'[2] = moved[i] /\ moved[i] \notin move_failed)
        /\ \A n \in move_failed :
              /\ ~InSeq(n, moved)
              /\ recordings[n] # NoBlob
              /\ recordings'[n] = recordings[n]
      ]_vars

\* of two successful items one upload raised; the other item has been
\* verified and deleted, the first is in the source
C12_Witness ==
    /\ ppc = "cleanup"
    /\ Len(successful) = 2
    /\ \E n \in move_failed : InSeq(n, successful) /\ recordings[n] # NoBlob
    /\ \E m \in AllNames : InSeq(m, moved) /\ recordings[m] = NoBlob

\* C13: a run that executed mark_running and is then ended by an interrupt
\* (sys.exit from _signal_handler, or KeyboardInterrupt in run-once) leaves a
\* persisted record that does not say running: the record it wrote itself is
\* never left with running = true once the process has exited.
C13_InterruptReleases ==
    \A p \in Procs :
       (pc[p] = "exited") =>
          ~(file.kind = "record" /\ file.running /\ file.pid = p)

\* C14: every admitted run that reaches its mark_complete and returns leaves
\* a record with running = false, last_run_time = the time of the write,
\* last_run_success = true exactly when nothing raised after the guard
\* (mark_running and manager initialisation included), and last_run_stats =
\* the run's statistics, empty when it failed.
C14_AdmittedRunReleases ==
    [][ \A p \in Procs :
           (mark_complete(p) /\ pc'[p] = "idle") =>
              /\ file'.kind = "record"
              /\ ~file'.running
              /\ file'.last_run_time = now
              /\ file'.last_run_success = (pc[p] = "worked")
              /\ file'.last_run_stats = (IF pc[p] = "worked" THEN "stats" ELSE "empty")
      ]_vars

\* A failed run has released over a record it could not write in mark_running.
C14_Witness ==
    /\ file.kind = "record" /\ ~file.running
    /\ ~file.last_run_success /\ file.last_run_stats = "empty"
    /\ file.last_run_time = now /\ now > 0
    /\ last.p \in Procs /\ last.ret = FALSE /\ last.at = now
    /\ last.after = NoFile /\ pc[last.p] = "idle"

\* C15: a run that finds a non-stale record with running = true returns at
\* once: it does not go on to mark_running or to the manager, no blob of any
\* namespace changes, and the lock record is left exactly as it was (the
\* holder's start_time and pid included).
C15_ConflictNoEffect ==
    [][ \A p \in Procs :
           ( /\ is_running(p)
             /\ file.kind = "record" /\ file.running
             /\ now - file.start_time <= StaleSeconds ) =>
              /\ file' = file
              /\ pc' = pc
              /\ storage' = storage /\ temp_audio' = temp_audio
              /\ calls' = calls
      ]_vars

\* A run was refused while another invocation held the guard and was still
\* working; the holder's record is the one it wrote.
C15_Witness ==
    /\ last.p \in Procs /\ last.ret /\ last.before = file
    /\ file.kind = "record" /\ file.running
    /\ \E q \in Procs \ {last.p} :
          pc[q] = "working" /\ file.pid = q /\ pc[last.p] = "idle"

\* C16: a listing failure aborts the run before any item is touched.  While
\* the scan is under way no blob of the three namespaces differs from what
\* the run found, nothing is reconciled and process_file has not been
\* called; and when the enumeration raises, whatever has been classified so
\* far, the run is over at once with the three namespaces unchanged.
C16_ListingFailureAborts ==
    [][ /\ (ppc = "scan") =>
              /\ recordings = at_start.recordings
              /\ transcriptions = at_start.transcriptions
              /\ processed_recordings = at_start.processed_recordings
              /\ calls = <<>> /\ copied = {}
        /\ (ppc = "scan" /\ lastop'[1] = "list") =>
              /\ ppc' = "idle"
              /\ pending' = <<>> /\ orphans' = <<>>
              /\ calls' = <<>> /\ copied' = {}
              /\ storage' = storage /\ temp_audio' = temp_audio
      ]_vars

\* The listing has failed in a run that had an orphan to reconcile and an
\* item to process; both are where they were.
C16_Witness ==
    /\ ppc = "idle" /\ lastop[1] = "list"
    /\ \E n \in AllNames :
          /\ recordings[n] # NoBlob /\ Eligible(n)
          /\ transcription_name(n) \in transcriptions
          /\ processed_recordings[n] = NoBlob
    /\ \E m \in AllNames :
          /\ recordings[m] # NoBlob /\ Eligible(m)
          /\ transcription_name(m) \notin transcriptions

\* C17: the existence oracle fails towards reprocessing.  In every step of
\* the scan that probes an eligible blob, the blob goes to orphans only when
\* the probe answered and the blob's transcription exists; when the
\* transcription is missing or the probe raised (whatever the container
\* holds) the blob goes to pending; the probe changes no blob, and the scan
\* goes on with the next blob of the listing.
C17_OracleFailsToPending ==
    [][ (ppc = "scan" /\ ppc' = "scan" /\ i' = i + 1 /\ Eligible(listing[i])) =>
           LET n == listing[i]
               answered == lastop'[3] = "ok"
               found == answered /\ transcription_name(n) \in transcriptions
           IN /\ lastop'[1] = "probe_artifact" /\ lastop'[2] = n
              /\ lastop'[3] \in {"ok", "error"}
              /\ found => (orphans' = Append(orphans, n) /\ pending' = pending)
              /\ ~found => (pending' = Append(pending, n) /\ orphans' = orphans)
              /\ storage' = storage /\ temp_audio' = temp_audio
              /\ listing' = listing
      ]_vars

\* A probe raised for a blob whose transcription exists: the blob is pending,
\* and a later blob of the listing has been probed since.
C17_Witness ==
    /\ ppc = "scan"
    /\ lastop[1] = "probe_artifact"
    /\ \E n \in probe_errors :
          /\ transcription_name(n) \in transcriptions
          /\ InSeq(n, pending) /\ ~InSeq(n, orphans)
          /\ lastop[2] # n

\* C18: no item-level failure is silently dropped.  Every step of a run in
\* which an operation on one item fails (download, transcription or artifact
\* upload in process_file; archive upload, size probe, size mismatch or
\* delete in move_and_delete; copy, size probe, size mismatch or delete in
\* _cleanup_orphans) appends exactly one entry naming that item to
\* stats.errors, and a failure of process_file also adds one to the failed
\* counter.
C18_NoFailureDropped ==
    [][ ( /\ ppc \in {"orphan_copy", "orphan_verify", "download", "transcribe",
                      "move", "delete"}
          /\ lastop'[1] # "kill"
          /\ lastop'[3] \in {"error", "mismatch"} ) =>
           /\ Len(stats'.errors) = Len(stats.errors) + 1
           /\ stats'.errors[Len(stats'.errors)][2] = lastop'[2]
           /\ \A k \in 1..Len(stats.errors) : stats'.errors[k] = stats.errors[k]
           /\ (ppc \in {"download", "transcribe"}) =>
                  stats'.failed = stats.failed + 1
      ]_vars

\* C19: local staging files are never leaked.  Once an item's batch is over
\* (the run is in a later batch, or at its end) the staging file process_file
\* created for the item is gone, whatever the item's outcome; so at the end
\* of a run no staging file of an item the run attempted exists.
C19_NoStagingLeak ==
    /\ (ppc = "done") =>
          \A k \in 1..Len(calls) : temp_audio[local_path(calls[k])] = NoBlob
    /\ (ppc \in {"download", "transcribe", "move", "delete", "cleanup"}) =>
          \A k \in 1..Len(calls) :
             (\A j \in 1..Len(batch_files) : batch_files[j] # calls[k]) =>
                (\/ temp_audio[local_path(calls[k])] = NoBlob
                 \/ \E j \in 1..Len(batch_files) :
                       local_path(batch_files[j]) = local_path(calls[k]))

\* C20: the steps of a run occur in order.  The guard record says running
\* while the scan, the reconciliation and the batches are under way; nothing
\* is reconciled or processed during the scan and no item is processed
\* before the reconciliation is over; the archival commit of a batch starts
\* when process_file has been called on all of its items; and the report is
\* emitted only after the guard record has been released.
C20_StepOrder ==
    [][ /\ (ppc \notin {"idle", "done"}) => (file.kind = "record" /\ file.running)
        /\ (ppc = "scan") => (calls = <<>> /\ copied = {})
        /\ (ppc \in {"orphan_copy", "orphan_verify"}) => (calls = <<>>)
        /\ (ppc \in {"move", "delete", "cleanup"}) =>
              \A j \in 1..Len(batch_files) : InSeq(batch_files[j], calls)
        /\ (ppc = "report" /\ ppc' = "done" /\ lastop'[1] = "send_report") =>
              (file.kind = "record" /\ ~file.running)
      ]_vars

\* C21: zero processed items.  When nothing was processed no report is
\* delivered (send_report returns before building or sending), and no
\* success rate is a division by zero, in process_all's summary, in
\* _create_text_report or in _create_html_report: a rate is computed only
\* when processed > 0, and then it is successful / processed.
C21_ZeroProcessed ==
    (ppc = "done" /\ lastop[1] \in {"no_report", "send_report", "create_reports"}) =>
       LET r == lastop[2]
           expected == (stats.successful * 1000) \div stats.processed
       IN /\ \A k \in 1..3 : r[k] # ZeroDivisionError
          /\ (stats.processed = 0) =>
                /\ lastop[1] # "send_report"
                /\ r[1] = NoRate /\ r[2] = NoRate /\ r[3] \in {NoRate, 0}
                /\ lastop[3] # "error"
          /\ (stats.processed > 0) =>
                \A k \in 1..3 : r[k] \in {NoRate, expected}

\* Nothing was processed: send_report was called and delivered nothing, and
\* the two bodies can be built without a rate.
C21_Witness ==
    /\ ppc = "done" /\ stats.processed = 0
    /\ lastop[1] = "no_report" /\ lastop[3] = "skipped"

\* the extension of a name without regard to letter case
casefold(t) ==
    CASE t \in {"wav", "Wav", "WAV"} -> "wav"
      [] t \in {"mp3", "Mp3", "MP3"} -> "mp3"
      [] OTHER -> t

CaseInsensitiveEligible(n) ==
    /\ Len(n) >= 2
    /\ n[Len(n) - 1] = "."
    /\ casefold(n[Len(n)]) \in {"mp3", "wav", "m4a", "flac", "ogg"}

\* C22: eligibility is a case-insensitive extension match.  After the scan a
\* listed blob is in the pending or the orphan bin if and only if its
\* extension, compared without regard to letter case (mixed case such as
\* .Wav included), is one of mp3, wav, m4a, flac, ogg.
C22_CaseInsensitive ==
    ScanDone =>
       \A n \in AllNames :
          InSeq(n, listing) =>
             ((InSeq(n, pending) \/ InSeq(n, orphans)) <=> CaseInsensitiveEligible(n))

\* C23: orphan reconciliation isolates item failures.  When the download,
\* the archive upload, the size probe or the delete of one orphan raises, the
\* orphan's source blob is left as it is, the loop goes on with the next
\* orphan of the list, and after the last one the run goes on to the plan of
\* the pending items, which are what the scan found.
C23_OrphanFailureIsolated ==
    [][ ( /\ ppc \in {"orphan_copy", "orphan_verify"}
          /\ lastop'[1] # "kill"
          /\ lastop'[3] = "error" ) =>
           /\ lastop'[2] = orphans[i]
           /\ recordings' = recordings
           /\ orphans' = orphans /\ pending' = pending
           /\ IF i < Len(orphans)
              THEN ppc' = "orphan_copy" /\ i' = i + 1
              ELSE ppc' = "plan"
      ]_vars

\* The first of two orphans failed and is still in the source; the second
\* one was reconciled after it.
C23_Witness ==
    /\ ppc = "plan" /\ Len(orphans) = 2
    /\ recordings[orphans[1]] # NoBlob
    /\ processed_recordings[orphans[1]] = NoBlob
    /\ recordings[orphans[2]] = NoBlob
    /\ processed_recordings[orphans[2]] # NoBlob

\* the orphans that left the source container during the reconciliation
OrphansMoved ==
    {k \in 1..Len(orphans) :
        /\ at_start.recordings[orphans[k]] # NoBlob
        /\ recordings[orphans[k]] = NoBlob}

\* C24: orphan reconciliation reports what it moved.  When the
\* reconciliation of a list of orphans is over, what it yields is the number
\* of orphans that were copied to the archive, verified and deleted, which
\* is the number of orphans that left the source container during the call.
C24_ReconcileCount ==
    (ppc = "plan" /\ orphans # <<>>) =>
       cleanup_orphans_returns(orphans) =
          [kind |-> "int", value |-> Cardinality(OrphansMoved)]

C26_StatusReadOnly ==
    [][ status =>
           /\ file' = file
           /\ pc' = pc /\ now' = now
           /\ prev' = prev /\ cur' = cur /\ released' = released
           /\ storage' = storage /\ temp_audio' = temp_audio /\ ppc' = ppc
           /\ shown' = IF file.kind = "record"
                       THEN [found |-> TRUE, state |-> file]
                       ELSE [found |-> FALSE, state |-> NoFile]
      ]_vars

\* status has shown a running record older than the staleness threshold,
\* and the record is still there.
C26_Witness ==
    /\ shown = [found |-> TRUE, state |-> file]
    /\ file.kind = "record" /\ file.running
    /\ now - file.start_time > StaleSeconds

\* C27: an asset is classified orphan only if its own transcription was
\* published.  Two distinct eligible blobs of a listing never have the same
\* transcription name; every blob in the orphan bin is one whose
\* transcription process_file has published; and a blob is archived only
\* after its own transcription was published.
C27_OwnTranscription ==
    /\ \A n \in AllNames, m \in AllNames :
          (n # m /\ InSeq(n, listing) /\ InSeq(m, listing)
                 /\ Eligible(n) /\ Eligible(m)) =>
             transcription_name(n) # transcription_name(m)
    /\ \A k \in 1..Len(orphans) : orphans[k] \in published
    /\ \A n \in AllNames : (processed_recordings[n] # NoBlob) => (n \in published)

\* C28: the archive holds each asset's own bytes.  Whenever move_and_delete
\* deletes a source blob, the archive blob of the same name holds exactly
\* the bytes the source blob holds at that moment, whatever the batch is,
\* batches of two blobs with the same base name under different prefixes
\* included.
C28_ArchiveOwnBytes ==
    [][ (ppc = "delete" /\ recordings[moved[i]] # NoBlob
                        /\ recordings'[moved[i]] = NoBlob) =>
           processed_recordings'[moved[i]] = recordings[moved[i]]
      ]_vars

Counters == {"processed", "successful", "failed", "moved", "deleted"}

\* C29: counter consistency.  In every state of a run processed =
\* successful + failed and deleted <= moved <= successful <= processed, and
\* no step of the run makes a counter smaller.
C29_CounterConsistency ==
    [][ /\ stats.processed = stats.successful + stats.failed
        /\ stats.deleted <= stats.moved
        /\ stats.moved <= stats.successful
        /\ stats.successful <= stats.processed
        /\ stats'.processed = stats'.successful + stats'.failed
        /\ stats'.deleted <= stats'.moved
        /\ stats'.moved <= stats'.successful
        /\ stats'.successful <= stats'.processed
        /\ (ppc \notin {"idle", "done"} /\ ppc' # "idle") =>
              \A c \in Counters : stats'[c] >= stats[c]
      ]_vars

\* A run has counted a failure and a success that was moved and deleted.
C29_Witness ==
    /\ ppc \notin {"idle", "done"}
    /\ stats.processed = 2 /\ stats.failed = 1 /\ stats.successful = 1
    /\ stats.moved = 1 /\ stats.deleted = 1

\* The file holds no start_time: it is absent, unreadable, or the record
\* mark_complete wrote.
Released(f) == f.kind # "record" \/ f.start_time = NoKey

\* C30: a released guard admits the next run.  Whenever is_running reads a
\* record written by mark_complete, an absent file or an unreadable file,
\* at any time, it returns False, leaves the file as it is, and the caller
\* stands before mark_running ("admitted" is the guard of mark_running).
C30_ReleasedAdmits ==
    [][ \A p \in Procs :
          (is_running(p) /\ Released(file)) =>
              /\ last'.ret = FALSE
              /\ file' = file
              /\ pc'[p] = "admitted"
      ]_vars

\* A run is admitted over the record of a mark_complete made more than the
\* stale threshold earlier.
C30_Witness ==
    /\ last.p \in Procs
    /\ pc[last.p] = "admitted"
    /\ last.before.kind = "record"
    /\ last.before.last_run_time # NoKey
    /\ last.at - last.before.last_run_time > StaleSeconds
    /\ file = last.before

\* Scheduler intervals after which a record is older than the threshold.
RecoverTicks == StaleSeconds \div IntervalSeconds + 1

\* The clock of the model reaches an age of the record beyond the threshold.
WithinHorizon(t) == t + RecoverTicks * IntervalSeconds <= MaxTicks * IntervalSeconds

\* The file holds the record of a run that has not written mark_complete.
Held == file.kind = "record" /\ file.running /\ file.start_time # NoKey

\* C31: the guard never blocks runs permanently.  The file does not stay for
\* ever the record of a run that never writes mark_complete: the record is
\* replaced, and what replaces it without a mark_complete is the record of an
\* invocation that was admitted over it; an invocation that reads a record
\* whose age does not exceed the threshold is refused and leaves it unchanged.
C31_NeverBlocksForever ==
    /\ []<>~(Held /\ WithinHorizon(file.start_time))
    /\ [][ (Held /\ file' # file) =>
              \/ released'
              \/ /\ cur'.before = file
                 /\ ~cur'.ret
                 /\ cur'.at - file.start_time > StaleSeconds
         ]_vars
    /\ [][ \A q \in Procs :
             (acquire(q) /\ Held /\ now - file.start_time <= StaleSeconds) =>
                (cur'.ret /\ file' = file)
         ]_vars

\* An invocation was refused over the record of a run that never completed,
\* and a later one, made past the threshold, is admitted over the same record.
C31_Witness ==
    /\ cur.before.kind = "record" /\ cur.before.running
    /\ ~cur.ret
    /\ cur.at - cur.before.start_time > StaleSeconds
    /\ prev.before = cur.before
    /\ prev.ret
    /\ prev.at < cur.at

====
